---------------------------- MODULE Spec2Model ----------------------------
(***************************************************************************)
(* A model of the card vault of card_bot: the encrypted record store       *)
(* (card_bot/database.py, class SecureCardDatabase), the text extractor    *)
(* (card_bot/ocr_parser.py, class CardParser) and the handlers of the bot  *)
(* that call them (card_bot/bot.py).                                       *)
(*                                                                         *)
(* A Python str is a sequence of one-character strings, so that replace,   *)
(* split and the regular expressions are computed on characters.           *)
(***************************************************************************)
EXTENDS Integers, Sequences, FiniteSets, TLC

(***************************************************************************)
(* Bounds of the model.                                                    *)
(***************************************************************************)
\* add_card is called at most MaxAdds times in a run
MaxAdds == 2
\* CURRENT_TIMESTAMP takes the values 0..MaxClock
MaxClock == 1

(***************************************************************************)
(* Python values.                                                          *)
(***************************************************************************)
\* Python's None: a one-element sequence whose element is not a character,
\* hence different from every str (the str 'None' is <<"N","o","n","e">>).
None == <<"NoneType">>

Digits == {"0", "1", "2", "3", "4", "5", "6", "7", "8", "9"}

\* str.replace(old, '') for a one-character old: every occurrence removed
RECURSIVE RemoveChar(_, _)
RemoveChar(s, ch) ==
    IF s = <<>> THEN <<>>
    ELSE IF Head(s) = ch THEN RemoveChar(Tail(s), ch)
         ELSE <<Head(s)>> \o RemoveChar(Tail(s), ch)

\* the characters the regular expression class \s matches
Whitespace == {" ", "\t", "\n", "\r", "\f"}

\* re.sub of a character class by '': every character of the class removed
RECURSIVE RemoveChars(_, _)
RemoveChars(s, class) ==
    IF s = <<>> THEN <<>>
    ELSE IF Head(s) \in class THEN RemoveChars(Tail(s), class)
         ELSE <<Head(s)>> \o RemoveChars(Tail(s), class)

\* the inputs of the model: two card numbers, a CVV, an expiry, labels
NumA == <<"4","2","7","6","3","8","0","1","2","3","4","5","6","7","8","9">>
NumB == <<"5","5","5","5","5","5","5","5","5","5","5","5","4","4","4","4">>
Cvv123 == <<"1","2","3">>
Exp1225 == <<"1","2","/","2","5">>
LabelTest == <<"T","e","s","t">>

\* a 16-character number written as four groups joined by sep
Grouped(n, sep) ==
    SubSeq(n, 1, 4) \o sep \o SubSeq(n, 5, 8) \o sep \o SubSeq(n, 9, 12)
        \o sep \o SubSeq(n, 13, 16)

Spaced(n) == Grouped(n, <<" ">>)
Tabbed(n) == Grouped(n, <<"\t">>)

(***************************************************************************)
(* The state.                                                              *)
(***************************************************************************)
VARIABLES
    keyFile,      \* content of the file at key_path, or NoFile
    keyMode,      \* permission bits of the file at key_path, or NoMode
    tableExists,  \* whether the database file holds the table cards
    table,        \* the rows of cards: id -> [card_name, encrypted_data, created_at]
    seq,          \* sqlite_sequence of cards: the largest id ever assigned
    now,          \* the clock CURRENT_TIMESTAMP reads
    cipher,       \* per store object: self.cipher, or NoCipher before __init__
    last,         \* the last call: [op, store, arg, ret]
    given,        \* history: id -> the payload passed to the add_card that returned id
    returned,     \* history: the ids add_card returned, in order
    buttons,      \* the callback_data of the Save buttons the bot has sent to the chat
    pc,           \* per process: where it is inside __init__ (with the key in
                  \* its local variable), or between its card_exists and its
                  \* add_card (with the card)
    sent,         \* the card fields shown in the clear by what the bot sent last
    xlsx,         \* the rows of the workbook file the export left on disk
    conn          \* how many connections sqlite3.connect has returned that are
                  \* not closed yet (followed in the runs about connections)

storeVars == <<keyFile, keyMode, tableExists, table, seq, now, cipher, last, given, returned>>
callerVars == <<buttons, pc, sent, xlsx, conn>>
vars == <<keyFile, keyMode, tableExists, table, seq, now, cipher, last, given, returned,
          buttons, pc, sent, xlsx, conn>>

NoFile == 0
NoCipher == 0
\* the key file between open(key_path, 'wb') and the write: no bytes
EmptyFile == 3
\* the permission bits of a file: none while there is no file, the bits
\* open(key_path, 'wb') creates it with (0666 less the umask of the process:
\* 0644 under umask 022, 0600 under umask 077), and those of os.chmod
NoMode == "none"
CreateModes == {"0644", "0600"}
OwnerOnly == "0600"
\* the values Fernet.generate_key() may return
Keys == {1, 2}
\* the processes; each has one store object, a SecureCardDatabase on the
\* same db_path and key_path, named like the process
Stores == {"db", "db2"}
\* the store object of the runs with one process
Db == "db"

Ids == 1..MaxAdds


(***************************************************************************)
(* Results of a call: a returned value, or an exception that propagates.   *)
(***************************************************************************)
Ok(v) == [raised |-> FALSE, val |-> v]
Raise(e) == [raised |-> TRUE, val |-> e]

(***************************************************************************)
(* Key handling and encryption (database.py, lines 20-57).                 *)
(***************************************************************************)
\* a faulty _load_or_create_key: a key is generated although the file exists
load_or_create_key_fresh(file, fresh) == fresh

\* _load_or_create_key: the key the store object ends up with, given the
\* content of the key file and the key generate_key() would return
load_or_create_key(file, fresh) ==
    IF file # NoFile THEN file ELSE fresh

\* _load_or_create_key: the content of the key file afterwards
key_file_after(file, fresh) ==
    IF file # NoFile THEN file ELSE fresh

\* _load_or_create_key: the permission bits of the key file afterwards
\* (os.chmod runs only in the branch that created the file)
key_mode_after(file, mode) ==
    IF file # NoFile THEN mode ELSE OwnerOnly

\* a faulty serialisation: None written as the text 'None', as str() does
json_value_str(v) ==
    [t |-> "string", chars |-> IF v = None THEN <<"N", "o", "n", "e">> ELSE v]

\* json.dumps of one field: None becomes null, a str a JSON string
json_value(v) ==
    IF v = None THEN [t |-> "null"] ELSE [t |-> "string", chars |-> v]

\* json.loads of one field
python_value(j) ==
    IF j.t = "null" THEN None ELSE j.chars

\* json.dumps(data): the document, as its members in the order of the dict
json_dumps(data) ==
    << <<"card_number", json_value(data.card_number)>>,
       <<"cvv", json_value(data.cvv)>>,
       <<"expiry", json_value(data.expiry)>> >>

\* the value of member name of a JSON document
Member(doc, name) ==
    LET i == CHOOSE j \in 1..Len(doc) : doc[j][1] = name IN doc[i][2]

\* json.loads(text): the dict of the document
json_loads(doc) ==
    [card_number |-> python_value(Member(doc, "card_number")),
     cvv |-> python_value(Member(doc, "cvv")),
     expiry |-> python_value(Member(doc, "expiry"))]

\* Fernet.encrypt: a token only the same key opens
fernet_encrypt(k, msg) == [key |-> k, msg |-> msg]

\* Fernet.decrypt: the message, or InvalidToken under another key
fernet_decrypt(k, token) ==
    IF token.key = k THEN Ok(token.msg) ELSE Raise("InvalidToken")

\* _encrypt_data
encrypt_data(k, data) == fernet_encrypt(k, json_dumps(data))

\* _decrypt_data
decrypt_data(k, token) ==
    LET decrypted == fernet_decrypt(k, token) IN
    IF decrypted.raised THEN decrypted ELSE Ok(json_loads(decrypted.val))

(***************************************************************************)
(* The SQL statements (database.py).                                       *)
(***************************************************************************)
EmptyTable == [i \in {} |-> None]

\* CREATE TABLE IF NOT EXISTS cards: the rows of cards afterwards
create_table_if_not_exists(exists, tbl) ==
    IF exists THEN tbl ELSE EmptyTable

MaxOf(S) == IF S = {} THEN 0 ELSE CHOOSE x \in S : \A y \in S : y <= x

\* a faulty schema: id INTEGER PRIMARY KEY without AUTOINCREMENT, where the
\* next id is one more than the largest id now in the table
next_rowid_max(tbl, sq) == MaxOf(DOMAIN tbl) + 1

\* id INTEGER PRIMARY KEY AUTOINCREMENT: the id of the next inserted row is
\* one more than the largest id the table ever held (sqlite_sequence)
next_rowid(tbl, sq) ==
    LET m == MaxOf(DOMAIN tbl) IN (IF sq > m THEN sq ELSE m) + 1

\* a different insert: a card_name of None is replaced by a default name
insert_card_default(tbl, id, card_name, encrypted, ts) ==
    [i \in DOMAIN tbl \cup {id} |->
        IF i = id
        THEN [card_name |-> IF card_name = None THEN <<"K", "a", "r", "t", "a">>
                                                ELSE card_name,
              encrypted_data |-> encrypted, created_at |-> ts]
        ELSE tbl[i]]

\* a different insert: a row that holds the same payload is replaced, as
\* under a UNIQUE column with INSERT OR REPLACE
insert_card_unique(tbl, id, card_name, encrypted, ts) ==
    [i \in {j \in DOMAIN tbl : tbl[j].encrypted_data # encrypted} \cup {id} |->
        IF i = id
        THEN [card_name |-> card_name, encrypted_data |-> encrypted, created_at |-> ts]
        ELSE tbl[i]]

\* INSERT INTO cards (card_name, encrypted_data) VALUES (?, ?), created_at
\* defaulting to CURRENT_TIMESTAMP
insert_card(tbl, id, card_name, encrypted, ts) ==
    [i \in DOMAIN tbl \cup {id} |->
        IF i = id
        THEN [card_name |-> card_name, encrypted_data |-> encrypted, created_at |-> ts]
        ELSE tbl[i]]

\* the ids of a set in ascending order (ORDER BY id; a scan of the table
\* visits the rows in this order too)
RECURSIVE OrderById(_)
OrderById(S) ==
    IF S = {} THEN <<>>
    ELSE LET m == CHOOSE x \in S : \A y \in S : x <= y
         IN <<m>> \o OrderById(S \ {m})

\* a faulty listing: SELECT * FROM cards ORDER BY id
get_all_cards_star(tbl) ==
    LET ids == OrderById(DOMAIN tbl) IN
    [i \in 1..Len(ids) |->
        <<ids[i], tbl[ids[i]].card_name, tbl[ids[i]].encrypted_data, tbl[ids[i]].created_at>>]

\* SELECT id, card_name, created_at FROM cards ORDER BY id
get_all_cards(tbl) ==
    LET ids == OrderById(DOMAIN tbl) IN
    [i \in 1..Len(ids) |-> <<ids[i], tbl[ids[i]].card_name, tbl[ids[i]].created_at>>]

\* SELECT encrypted_data FROM cards
select_encrypted_data(tbl) ==
    LET ids == OrderById(DOMAIN tbl) IN
    [i \in 1..Len(ids) |-> tbl[ids[i]].encrypted_data]

\* a faulty loop: the stored number is compared as it was written
RECURSIVE scan_cards_raw(_, _, _)
scan_cards_raw(k, all_cards, clean_number) ==
    IF all_cards = <<>> THEN Ok(FALSE)
    ELSE LET card_data == decrypt_data(k, Head(all_cards)) IN
         IF card_data.raised THEN card_data
         ELSE IF card_data.val.card_number = clean_number
              THEN Ok(TRUE)
              ELSE scan_cards_raw(k, Tail(all_cards), clean_number)

\* the loop of card_exists over the fetched rows
RECURSIVE scan_cards(_, _, _)
scan_cards(k, all_cards, clean_number) ==
    IF all_cards = <<>> THEN Ok(FALSE)
    ELSE LET card_data == decrypt_data(k, Head(all_cards)) IN
         IF card_data.raised THEN card_data
         ELSE IF RemoveChar(card_data.val.card_number, " ") = clean_number
              THEN Ok(TRUE)
              ELSE scan_cards(k, Tail(all_cards), clean_number)

\* a faulty card_exists: the candidate is compared as it was written
card_exists_as_written(k, tbl, card_number) ==
    scan_cards(k, select_encrypted_data(tbl), card_number)

\* card_exists(card_number) of a store object holding key k
card_exists(k, tbl, card_number) ==
    scan_cards(k, select_encrypted_data(tbl), RemoveChar(card_number, " "))

\* a faulty get_card: a row that does not decrypt is reported as no row
get_card_quiet(k, tbl, card_id) ==
    IF card_id \in DOMAIN tbl /\ ~decrypt_data(k, tbl[card_id].encrypted_data).raised
    THEN decrypt_data(k, tbl[card_id].encrypted_data)
    ELSE Ok(None)

\* get_card(card_id) of a store object holding key k
get_card(k, tbl, card_id) ==
    IF card_id \in DOMAIN tbl
    THEN decrypt_data(k, tbl[card_id].encrypted_data)
    ELSE Ok(None)

\* a faulty delete: DELETE FROM cards, without the WHERE
delete_rows_all(tbl, card_id) == EmptyTable

\* a faulty update: UPDATE cards SET card_name = ?, without the WHERE
update_rows_all(tbl, card_id, new_name) ==
    [i \in DOMAIN tbl |-> [tbl[i] EXCEPT !.card_name = new_name]]

\* DELETE FROM cards WHERE id = ?: the rows afterwards
delete_rows(tbl, card_id) ==
    [i \in DOMAIN tbl \ {card_id} |-> tbl[i]]

\* UPDATE cards SET card_name = ? WHERE id = ?: the rows afterwards
update_rows(tbl, card_id, new_name) ==
    [i \in DOMAIN tbl |->
        IF i = card_id THEN [tbl[i] EXCEPT !.card_name = new_name] ELSE tbl[i]]

\* cursor.rowcount of a DELETE or UPDATE ... WHERE id = ?
rowcount(tbl, card_id) ==
    IF card_id \in DOMAIN tbl THEN 1 ELSE 0

(***************************************************************************)
(* The inputs of the calls.                                                *)
(***************************************************************************)
Payload(n, c, e) == [card_number |-> n, cvv |-> c, expiry |-> e]

\* the payloads passed to add_card: the same digits written without
\* separators, with spaces and with tabs; a CVV or an expiry may be None
Payloads ==
    { Payload(NumA, Cvv123, Exp1225),
      Payload(Spaced(NumA), None, Exp1225),
      Payload(Tabbed(NumA), Cvv123, None) }

CardNumbers == {p.card_number : p \in Payloads}

\* the card_name of add_card (None by default) and the new_name of a rename
AddLabels == {None, LabelTest}
NewLabels == {LabelTest}

(***************************************************************************)
(* The operations of the store.                                            *)
(***************************************************************************)
\* __init__ has run on store object c
Constructed(c) == cipher[c] # NoCipher

\* the ids of the rows stored
Live == DOMAIN table

Call(op, c, arg, ret) == [op |-> op, store |-> c, arg |-> arg, ret |-> ret]

Init ==
    /\ keyFile = NoFile
    /\ keyMode = NoMode
    /\ tableExists = FALSE
    /\ table = EmptyTable
    /\ seq = 0
    /\ now = 0
    /\ cipher = [c \in Stores |-> NoCipher]
    /\ last = Call("none", Db, None, Ok(None))
    /\ given = EmptyTable
    /\ returned = <<>>
    /\ buttons = {}
    /\ pc = [c \in Stores |-> [at |-> "idle", data |-> None, key |-> NoCipher]]
    /\ sent = <<>>
    /\ xlsx = <<>>
    /\ conn = 0

\* SecureCardDatabase(db_path, key_path): the effect of __init__ on the store
InitializeCall(c) ==
    \E fresh \in Keys :
        /\ cipher' = [cipher EXCEPT ![c] = load_or_create_key(keyFile, fresh)]
        /\ keyFile' = key_file_after(keyFile, fresh)
        /\ keyMode' = key_mode_after(keyFile, keyMode)
        /\ table' = create_table_if_not_exists(tableExists, table)
        /\ tableExists' = TRUE
        /\ given' = [i \in DOMAIN table' |-> given[i]]
        /\ last' = Call("init", c, None, Ok(None))
        /\ UNCHANGED <<seq, now, returned>>

\* __init__ called by a caller that does nothing else
Initialize(c) ==
    InitializeCall(c) /\ UNCHANGED callerVars

\* add_card(card_number, cvv, expiry, card_name): its effect on the store
AddCardCall(c, data, card_name) ==
    /\ cipher[c] # NoCipher
    /\ Len(returned) < MaxAdds
    /\ LET encrypted == encrypt_data(cipher[c], data)
           id == next_rowid(table, seq)
       IN /\ table' = insert_card(table, id, card_name, encrypted, now)
          /\ seq' = id
          /\ given' = [i \in DOMAIN table' |-> IF i = id THEN data ELSE given[i]]
          /\ returned' = Append(returned, id)
          /\ last' = Call("add_card", c, [data |-> data, card_name |-> card_name], Ok(id))
    /\ UNCHANGED <<keyFile, keyMode, tableExists, now, cipher>>

\* add_card called by a caller that does nothing else
AddCard(c, data, card_name) ==
    AddCardCall(c, data, card_name) /\ UNCHANGED callerVars

\* get_all_cards()
GetAllCards(c) ==
    /\ cipher[c] # NoCipher
    /\ last' = Call("get_all_cards", c, None, Ok(get_all_cards(table)))
    /\ UNCHANGED <<keyFile, keyMode, tableExists, table, seq, now, cipher, given, returned>>
    /\ UNCHANGED callerVars

\* card_exists(card_number): its effect on the store
CardExistsCall(c, card_number) ==
    /\ cipher[c] # NoCipher
    /\ last' = Call("card_exists", c, card_number, card_exists(cipher[c], table, card_number))
    /\ UNCHANGED <<keyFile, keyMode, tableExists, table, seq, now, cipher, given, returned>>

\* card_exists called by a caller that does nothing else
CardExists(c, card_number) ==
    CardExistsCall(c, card_number) /\ UNCHANGED callerVars

\* get_card(card_id): its effect on the store
GetCardCall(c, card_id) ==
    /\ cipher[c] # NoCipher
    /\ last' = Call("get_card", c, card_id, get_card(cipher[c], table, card_id))
    /\ UNCHANGED <<keyFile, keyMode, tableExists, table, seq, now, cipher, given, returned>>

\* get_card called by a caller that does nothing else
GetCard(c, card_id) ==
    GetCardCall(c, card_id) /\ UNCHANGED callerVars

\* delete_card(card_id)
DeleteCard(c, card_id) ==
    /\ cipher[c] # NoCipher
    /\ table' = delete_rows(table, card_id)
    /\ given' = [i \in DOMAIN table' |-> given[i]]
    /\ last' = Call("delete_card", c, card_id, Ok(rowcount(table, card_id) > 0))
    /\ UNCHANGED <<keyFile, keyMode, tableExists, seq, now, cipher, returned>>
    /\ UNCHANGED callerVars

\* update_card_name(card_id, new_name)
UpdateCardName(c, card_id, new_name) ==
    /\ cipher[c] # NoCipher
    /\ table' = update_rows(table, card_id, new_name)
    /\ last' = Call("update_card_name", c, [card_id |-> card_id, new_name |-> new_name],
                    Ok(rowcount(table, card_id) > 0))
    /\ UNCHANGED <<keyFile, keyMode, tableExists, seq, now, cipher, given, returned>>
    /\ UNCHANGED callerVars

\* time passes between two calls
Tick ==
    /\ now < MaxClock
    /\ now' = now + 1
    /\ UNCHANGED <<keyFile, keyMode, tableExists, table, seq, cipher, last, given, returned>>
    /\ UNCHANGED callerVars

\* one process calling the store in any order
StoreCall ==
    \/ Initialize(Db)
    \/ \E data \in Payloads, card_name \in AddLabels : AddCard(Db, data, card_name)
    \/ GetAllCards(Db)
    \/ \E n \in CardNumbers : CardExists(Db, n)
    \/ \E id \in Ids : GetCard(Db, id)
    \/ \E id \in Ids : DeleteCard(Db, id)
    \/ \E id \in Ids, new_name \in NewLabels : UpdateCardName(Db, id, new_name)
    \/ Tick

Next == StoreCall

Spec == Init /\ [][Next]_vars


(***************************************************************************)
(* The text extractor (ocr_parser.py, class CardParser).  A regular        *)
(* expression is matched position by position on the characters.           *)
(***************************************************************************)
Letters ==
    {"a", "b", "c", "d", "e", "f", "g", "h", "i", "j", "k", "l", "m",
     "n", "o", "p", "q", "r", "s", "t", "u", "v", "w", "x", "y", "z",
     "A", "B", "C", "D", "E", "F", "G", "H", "I", "J", "K", "L", "M",
     "N", "O", "P", "Q", "R", "S", "T", "U", "V", "W", "X", "Y", "Z"}

\* the class \w
IsWord(ch) == ch \in Digits \/ ch \in Letters \/ ch = "_"

\* the class [\s\-]
Separators == Whitespace \cup {"-"}

\* \b before position i of s (i = Len(s) + 1: at the end)
Boundary(s, i) ==
    LET before == i > 1 /\ IsWord(s[i - 1])
        after == i <= Len(s) /\ IsWord(s[i])
    IN before # after

\* \d{n} at position i of s
DigitsAt(s, i, n) ==
    /\ i + n - 1 <= Len(s)
    /\ \A j \in i..(i + n - 1) : s[j] \in Digits

MinOf(S) == CHOOSE x \in S : \A y \in S : x <= y

\* [\s\-]? at position i of s: the position after it
SkipOne(s, i, class) ==
    IF i <= Len(s) /\ s[i] \in class THEN i + 1 ELSE i

\* CARD_NUMBER_PATTERN at position i of s: the position after the match, or 0
CardPatternEnd(s, i) ==
    LET b == SkipOne(s, i + 4, Separators)
        c == SkipOne(s, b + 4, Separators)
        d == SkipOne(s, c + 4, Separators)
    IN IF /\ Boundary(s, i)
          /\ DigitsAt(s, i, 4) /\ DigitsAt(s, b, 4)
          /\ DigitsAt(s, c, 4) /\ DigitsAt(s, d, 4)
          /\ Boundary(s, d + 4)
       THEN d + 4 ELSE 0

\* a different last line: the stripped text is returned when nothing matches
parse_card_number_unmatched(text) ==
    LET clean_text == RemoveChars(text, Separators)
        runs == {i \in 1..Len(clean_text) :
                    /\ Boundary(clean_text, i)
                    /\ DigitsAt(clean_text, i, 16)
                    /\ Boundary(clean_text, i + 16)}
        groups == {i \in 1..Len(text) : CardPatternEnd(text, i) # 0}
    IN IF runs # {}
       THEN Spaced(SubSeq(clean_text, MinOf(runs), MinOf(runs) + 15))
       ELSE IF groups # {}
            THEN RemoveChars(SubSeq(text, MinOf(groups),
                                    CardPatternEnd(text, MinOf(groups)) - 1),
                             Separators)
            ELSE clean_text

\* a different choice among the matches: matches[-1], the last run
parse_card_number_last(text) ==
    LET clean_text == RemoveChars(text, Separators)
        runs == {i \in 1..Len(clean_text) :
                    /\ Boundary(clean_text, i)
                    /\ DigitsAt(clean_text, i, 16)
                    /\ Boundary(clean_text, i + 16)}
        groups == {i \in 1..Len(text) : CardPatternEnd(text, i) # 0}
        MaxRun == CHOOSE i \in runs : \A j \in runs : j <= i
    IN IF runs # {}
       THEN Spaced(SubSeq(clean_text, MaxRun, MaxRun + 15))
       ELSE IF groups # {}
            THEN RemoveChars(SubSeq(text, MinOf(groups),
                                    CardPatternEnd(text, MinOf(groups)) - 1),
                             Separators)
            ELSE None

\* parse_card_number(text)
parse_card_number(text) ==
    LET clean_text == RemoveChars(text, Separators)
        runs == {i \in 1..Len(clean_text) :
                    /\ Boundary(clean_text, i)
                    /\ DigitsAt(clean_text, i, 16)
                    /\ Boundary(clean_text, i + 16)}
        groups == {i \in 1..Len(text) : CardPatternEnd(text, i) # 0}
    IN IF runs # {}
       THEN Spaced(SubSeq(clean_text, MinOf(runs), MinOf(runs) + 15))
       ELSE IF groups # {}
            THEN RemoveChars(SubSeq(text, MinOf(groups),
                                    CardPatternEnd(text, MinOf(groups)) - 1),
                             Separators)
            ELSE None

\* re.findall(r'\d{16}', s) from position i on: the matches, left to right,
\* none overlapping another
RECURSIVE FindAll16(_, _)
FindAll16(s, i) ==
    IF i + 15 > Len(s) THEN <<>>
    ELSE IF DigitsAt(s, i, 16)
         THEN <<SubSeq(s, i, i + 15)>> \o FindAll16(s, i + 16)
         ELSE FindAll16(s, i + 1)

\* parse_all_card_numbers(text)
parse_all_card_numbers(text) ==
    LET matches == FindAll16(RemoveChars(text, Separators), 1)
    IN [i \in 1..Len(matches) |-> Spaced(matches[i])]

\* the class [/\-\s]
ExpirySeparators == Whitespace \cup {"/", "-"}

\* (0[1-9]|1[0-2]) at position i of s
MonthAt(s, i) ==
    /\ i + 1 <= Len(s)
    /\ \/ s[i] = "0" /\ s[i + 1] \in Digits \ {"0"}
       \/ s[i] = "1" /\ s[i + 1] \in {"0", "1", "2"}

\* EXPIRY_PATTERN at position i of s: the position after the match, or 0
ExpiryEnd(s, i) ==
    LET y == SkipOne(s, i + 2, ExpirySeparators)
    IN IF /\ Boundary(s, i)
          /\ MonthAt(s, i)
          /\ DigitsAt(s, y, 2)
          /\ Boundary(s, y + 2)
       THEN y + 2 ELSE 0

\* parse_expiry(text)
parse_expiry(text) ==
    LET matches == {i \in 1..Len(text) : ExpiryEnd(text, i) # 0}
    IN IF matches # {}
       THEN LET i == MinOf(matches)
                e == ExpiryEnd(text, i)
            IN SubSeq(text, i, i + 1) \o <<"/">> \o SubSeq(text, e - 2, e - 1)
       ELSE None

\* str.replace(old, '') for a non-empty old
RECURSIVE Remove(_, _)
Remove(s, old) ==
    IF Len(s) < Len(old) THEN s
    ELSE IF SubSeq(s, 1, Len(old)) = old
         THEN Remove(SubSeq(s, Len(old) + 1, Len(s)), old)
         ELSE <<Head(s)>> \o Remove(Tail(s), old)

\* the loop of parse_cvv: the chunks of clean_number from offset i on
\* (0-based, as in range(0, len(clean_number), 4)) removed from text
RECURSIVE RemoveChunks(_, _, _)
RemoveChunks(text, clean_number, i) ==
    IF i >= Len(clean_number) THEN text
    ELSE LET hi == IF i + 4 <= Len(clean_number) THEN i + 4 ELSE Len(clean_number)
         IN RemoveChunks(Remove(text, SubSeq(clean_number, i + 1, hi)), clean_number, i + 4)

\* re.sub of the expiry pattern by '', from position i of s on
RECURSIVE SubExpiry(_, _)
SubExpiry(s, i) ==
    IF i > Len(s) THEN <<>>
    ELSE IF ExpiryEnd(s, i) # 0 THEN SubExpiry(s, ExpiryEnd(s, i))
         ELSE <<s[i]>> \o SubExpiry(s, i + 1)

\* a search for three digits anywhere in the text as it was given: nothing
\* removed, no \b
parse_cvv_any_digits(text, card_number) ==
    LET matches == {i \in 1..Len(text) : DigitsAt(text, i, 3)}
    IN IF matches # {}
       THEN SubSeq(text, MinOf(matches), MinOf(matches) + 2)
       ELSE None

\* parse_cvv(text, card_number)
parse_cvv(text, card_number) ==
    LET clean_number == RemoveChar(card_number, " ")
        text1 == IF card_number # None /\ card_number # <<>>
                 THEN RemoveChunks(Remove(text, clean_number), clean_number, 0)
                 ELSE text
        text2 == SubExpiry(text1, 1)
        matches == {i \in 1..Len(text2) :
                       /\ Boundary(text2, i)
                       /\ DigitsAt(text2, i, 3)
                       /\ Boundary(text2, i + 3)}
    IN IF matches # {}
       THEN SubSeq(text2, MinOf(matches), MinOf(matches) + 2)
       ELSE None

\* parse_all_cards_from_image, given the text the OCR read from the image
parse_all_cards(text) ==
    LET card_numbers == parse_all_card_numbers(text)
    IN [i \in 1..Len(card_numbers) |->
           Payload(card_numbers[i], parse_cvv(text, card_numbers[i]), parse_expiry(text))]

(***************************************************************************)
(* The checksum and the formatting of a card number (ocr_parser.py,        *)
(* lines 243-290).                                                         *)
(***************************************************************************)
\* int(d) of a digit character
DigitValue ==
    "0" :> 0 @@ "1" :> 1 @@ "2" :> 2 @@ "3" :> 3 @@ "4" :> 4 @@
    "5" :> 5 @@ "6" :> 6 @@ "7" :> 7 @@ "8" :> 8 @@ "9" :> 9

\* re.sub(r'\D', '', card_number)
OnlyDigits(s) == SelectSeq(s, LAMBDA ch : ch \in Digits)

\* a different formatting: the digits before the last group are masked
format_card_number_masked(card_number) ==
    LET clean == OnlyDigits(card_number) IN
    IF Len(clean) = 16
    THEN <<"*", "*", "*", "*", " ", "*", "*", "*", "*", " ", "*", "*", "*", "*", " ">>
             \o SubSeq(clean, 13, 16)
    ELSE card_number

\* format_card_number: four groups of four digits, or the text as it is
format_card_number(card_number) ==
    LET clean == OnlyDigits(card_number) IN
    IF Len(clean) = 16
    THEN SubSeq(clean, 1, 4) \o <<" ">> \o SubSeq(clean, 5, 8) \o <<" ">>
             \o SubSeq(clean, 9, 12) \o <<" ">> \o SubSeq(clean, 13, 16)
    ELSE card_number

\* a faulty loop body: the digits at even i are doubled
luhn_term_even(i, digit) ==
    IF i % 2 = 0
    THEN (IF digit * 2 > 9 THEN digit * 2 - 9 ELSE digit * 2)
    ELSE digit

\* a faulty loop body: a doubled digit above 9 is not reduced by 9
luhn_term_unreduced(i, digit) ==
    IF i % 2 = 1 THEN digit * 2 ELSE digit

\* the body of the loop of validate_card_number: what the digit at index i
\* of reversed(digits) adds to checksum
luhn_term(i, digit) ==
    IF i % 2 = 1
    THEN (IF digit * 2 > 9 THEN digit * 2 - 9 ELSE digit * 2)
    ELSE digit

\* the loop of validate_card_number from index i of reversed(digits) on
RECURSIVE luhn_checksum(_, _)
luhn_checksum(clean, i) ==
    IF i >= Len(clean) THEN 0
    ELSE luhn_term(i, DigitValue[clean[Len(clean) - i]]) + luhn_checksum(clean, i + 1)

\* validate_card_number
validate_card_number(card_number) ==
    LET clean == OnlyDigits(card_number) IN
    IF Len(clean) # 16 THEN FALSE
    ELSE luhn_checksum(clean, 0) % 10 = 0

(***************************************************************************)
(* The handlers of the bot (bot.py).                                       *)
(***************************************************************************)
\* str(x) in an f-string
Str(x) == IF x = None THEN <<"N", "o", "n", "e">> ELSE x

\* f"save_{card_number}_{cvv}_{expiry}"
callback_data(card) ==
    <<"s", "a", "v", "e", "_">> \o Str(card.card_number) \o <<"_">>
        \o Str(card.cvv) \o <<"_">> \o Str(card.expiry)

\* str.split("_"): the parts, s read from position i on, cur the part begun
RECURSIVE SplitFrom(_, _, _)
SplitFrom(s, i, cur) ==
    IF i > Len(s) THEN <<cur>>
    ELSE IF s[i] = "_" THEN <<cur>> \o SplitFrom(s, i + 1, <<>>)
         ELSE SplitFrom(s, i + 1, Append(cur, s[i]))

Split(s) == SplitFrom(s, 1, <<>>)

\* parts[k] if parts[k] != 'None' else None
NoneIfNoneText(part) == IF part = <<"N", "o", "n", "e">> THEN None ELSE part

\* f"Karta {card_number[-4:]}" (the Russian word, in Latin letters)
card_label(card_number) ==
    <<"K", "a", "r", "t", "a", " ">>
        \o SubSeq(card_number,
                  (IF Len(card_number) > 4 THEN Len(card_number) - 3 ELSE 1),
                  Len(card_number))

\* the messages typed in the runs of the bot: a number with spaces, with
\* tabs, with hyphens and without separators, each followed by an expiry
\* and a CVV, another number, and a text without a number
Texts ==
    { Spaced(NumA) \o <<" ">> \o Exp1225 \o <<" ">> \o Cvv123,
      Tabbed(NumA) \o <<"\n">> \o Exp1225 \o <<" ">> \o Cvv123,
      Grouped(NumA, <<"-">>) \o <<" ", "c", "v", "v", " ">> \o Cvv123,
      NumA \o <<",", " ">> \o Cvv123,
      Spaced(NumB) \o <<",", " ">> \o Exp1225,
      <<"h", "e", "l", "l", "o">> }

\* the texts read from the photos: one card, the same card twice, two cards
OcrTexts ==
    { Spaced(NumA) \o <<"\n">> \o Exp1225 \o <<" ">> \o Cvv123,
      Spaced(NumA) \o <<"\n">> \o Spaced(NumA),
      NumA \o <<" ", "x", " ">> \o Spaced(NumB) }

\* the extractor applied to the messages and to the texts of the photos
\* (values that do not depend on the state, computed once)
ParsedText ==
    [text \in Texts |->
        LET card_number == parse_card_number(text)
            cvv == parse_cvv(text, card_number)
            expiry == parse_expiry(text)
        IN Payload(card_number, cvv, expiry)]

ParsedPhoto == [text \in OcrTexts |-> parse_all_cards(text)]

\* x or 'text' in an f-string (the Russian text, as n/a)
OrText(x) == IF x = None \/ x = <<>> THEN <<"n", "/", "a">> ELSE x

\* the card fields in the reply "card saved" of handle_text
reply_saved(card) ==
    <<card.card_number, OrText(card.cvv), OrText(card.expiry)>>

\* the card fields in the message "card already exists"
reply_duplicate(card_number) == <<card_number>>

\* the card fields in the message of handle_photo that offers to save a card
reply_recognized(card) ==
    <<card.card_number, OrText(card.cvv), OrText(card.expiry),
      card.card_number, OrText(card.expiry)>>

\* the card fields in the message of the view_ callback
reply_view(card) ==
    <<Str(card.card_number), Str(card.cvv), Str(card.expiry)>>

\* the check for a duplicate and the save that handle_text and the Save
\* callback share: card_exists, then add_card unless it returned True
SaveUnlessStored(card) ==
    LET exists == card_exists(cipher[Db], table, card.card_number)
    IN IF exists.raised \/ exists.val
       THEN CardExistsCall(Db, card.card_number)
       ELSE AddCardCall(Db, card, card_label(card.card_number))

\* handle_text: a text message typed by the user
HandleText(text) ==
    LET card == ParsedText[text]
        exists == card_exists(cipher[Db], table, card.card_number)
    IN /\ Constructed(Db)
       /\ IF card.card_number # None
          THEN /\ SaveUnlessStored(card)
               /\ sent' = IF exists.raised THEN <<>>
                          ELSE IF exists.val THEN reply_duplicate(card.card_number)
                               ELSE reply_saved(card)
          ELSE /\ last' = Call("handle_text", Db, text, Ok(None))
               /\ sent' = <<>>
               /\ UNCHANGED <<keyFile, keyMode, tableExists, table, seq, now, cipher, given, returned>>
       /\ UNCHANGED <<buttons, pc, xlsx, conn>>

\* the loop of handle_photo: the Save buttons sent for the cards found, one
\* for each card that card_exists does not report; an exception ends the loop
RECURSIVE SaveButtons(_, _, _)
SaveButtons(k, tbl, cards) ==
    IF cards = <<>> THEN {}
    ELSE LET exists == card_exists(k, tbl, Head(cards).card_number)
         IN IF exists.raised THEN {}
            ELSE (IF exists.val THEN {} ELSE {callback_data(Head(cards))})
                     \cup SaveButtons(k, tbl, Tail(cards))

\* the loop of handle_photo: the card fields in the messages sent for the
\* cards found, one message for each card
RECURSIVE PhotoReplies(_, _, _)
PhotoReplies(k, tbl, cards) ==
    IF cards = <<>> THEN <<>>
    ELSE LET exists == card_exists(k, tbl, Head(cards).card_number)
         IN IF exists.raised THEN <<>>
            ELSE (IF exists.val THEN reply_duplicate(Head(cards).card_number)
                  ELSE reply_recognized(Head(cards)))
                     \o PhotoReplies(k, tbl, Tail(cards))

\* handle_photo: a photo whose OCR text is text
HandlePhoto(text) ==
    /\ Constructed(Db)
    /\ buttons' = buttons \cup SaveButtons(cipher[Db], table, ParsedPhoto[text])
    /\ sent' = PhotoReplies(cipher[Db], table, ParsedPhoto[text])
    /\ last' = Call("handle_photo", Db, text, Ok(None))
    /\ UNCHANGED <<keyFile, keyMode, tableExists, table, seq, now, cipher, given, returned>>
    /\ UNCHANGED <<pc, xlsx, conn>>

\* button_callback with data "save_...": the user pressed a Save button
PressSave(data) ==
    LET parts == Split(data)
        exists == card_exists(cipher[Db], table, parts[2])
    IN /\ Constructed(Db)
       /\ data \in buttons
       /\ Len(parts) >= 4
       /\ SaveUnlessStored(Payload(parts[2], NoneIfNoneText(parts[3]),
                                   NoneIfNoneText(parts[4])))
       /\ sent' = IF ~exists.raised /\ exists.val
                  THEN reply_duplicate(parts[2])
                  ELSE <<>>
       /\ UNCHANGED <<buttons, pc, xlsx, conn>>

\* button_callback with data "confirm_delete_<id>"
PressConfirmDelete(card_id) ==
    /\ card_id \in Live
    /\ DeleteCard(Db, card_id)

\* button_callback with data "view_<id>": the card is shown in the chat
ViewCard(card_id) ==
    LET card_data == get_card(cipher[Db], table, card_id)
    IN /\ GetCardCall(Db, card_id)
       /\ sent' = IF card_data.raised \/ card_id \notin Live
                  THEN <<>>
                  ELSE reply_view(card_data.val)
       /\ UNCHANGED <<buttons, pc, xlsx, conn>>

\* the loop of export_to_excel: the rows appended to the sheet, one for each
\* listed card; an exception of get_card ends the handler
RECURSIVE SheetRows(_, _, _)
SheetRows(k, tbl, cards) ==
    IF cards = <<>> THEN Ok(<<>>)
    ELSE LET card_id == Head(cards)[1]
             card_name == Head(cards)[2]
             card_data == get_card(k, tbl, card_id)
             rest == SheetRows(k, tbl, Tail(cards))
         IN IF card_data.raised THEN card_data
            ELSE IF rest.raised THEN rest
            ELSE Ok(<< [card_id |-> card_id,
                        card_name |-> card_name,
                        card_number |-> card_data.val.card_number,
                        cvv |-> card_data.val.cvv,
                        expiry |-> card_data.val.expiry,
                        created_at |-> Head(cards)[3]] >> \o rest.val)

\* the card fields of the rows of a sheet
RECURSIVE SheetFields(_)
SheetFields(rows) ==
    IF rows = <<>> THEN <<>>
    ELSE <<Head(rows).card_number, Head(rows).cvv, Head(rows).expiry>>
             \o SheetFields(Tail(rows))

\* export_to_excel: the workbook is saved to my_cards_<time>.xlsx, sent as
\* a document and removed; when reply_document raises (delivered is FALSE)
\* the except branch runs and the file stays
ExportToExcel ==
    LET cards == get_all_cards(table)
        rows == SheetRows(cipher[Db], table, cards)
    IN /\ Constructed(Db)
       /\ last' = Call("export_to_excel", Db, None, Ok(None))
       /\ \E delivered \in BOOLEAN :
             IF cards = <<>> \/ rows.raised
             THEN sent' = <<>> /\ xlsx' = xlsx
             ELSE IF delivered
                  THEN sent' = SheetFields(rows.val) /\ xlsx' = xlsx
                  ELSE sent' = <<>> /\ xlsx' = rows.val
       /\ UNCHANGED <<keyFile, keyMode, tableExists, table, seq, now, cipher, given, returned>>
       /\ UNCHANGED <<buttons, pc, conn>>

\* the bot: one process, its handlers run one after the other
BotStep ==
    \/ Initialize(Db)
    \/ \E text \in Texts : HandleText(text)
    \/ \E text \in OcrTexts : HandlePhoto(text)
    \/ \E data \in buttons : PressSave(data)
    \/ \E id \in Ids : PressConfirmDelete(id)

SpecBot == Init /\ [][BotStep]_vars

\* the bot, with the handlers that show the stored cards to the chat
ChatStep ==
    \/ Initialize(Db)
    \/ \E text \in OcrTexts : HandlePhoto(text)
    \/ \E data \in buttons : PressSave(data)
    \/ \E id \in Ids : ViewCard(id)
    \/ ExportToExcel

SpecChat == Init /\ [][ChatStep]_vars

(***************************************************************************)
(* Two processes on the same database and key file (two bots, or two       *)
(* callers of the store), each doing what the Save callback does: one      *)
(* card_exists, then one add_card, each call a transaction of its own.     *)
(***************************************************************************)
\* the cards the two processes are asked to save
SaveRequests ==
    { Payload(Spaced(NumA), Cvv123, Exp1225),
      Payload(Spaced(NumB), None, Exp1225) }

\* the process constructs its store object (one process after the other)
ProcStart(c) ==
    /\ ~Constructed(c)
    /\ Initialize(c)

\* the process reaches db.card_exists(card_number) for a card to save
ProcCheck(c, card) ==
    LET exists == card_exists(cipher[c], table, card.card_number)
    IN /\ pc[c].at = "idle"
       /\ CardExistsCall(c, card.card_number)
       /\ pc' = IF exists.raised \/ exists.val
                THEN pc
                ELSE [pc EXCEPT ![c] = [at |-> "add_card", data |-> card, key |-> NoCipher]]
       /\ UNCHANGED <<buttons, sent, xlsx, conn>>

\* the process reaches db.add_card(...) for the card it checked
ProcSave(c) ==
    /\ pc[c].at = "add_card"
    /\ AddCardCall(c, pc[c].data, card_label(pc[c].data.card_number))
    /\ pc' = [pc EXCEPT ![c] = [at |-> "idle", data |-> None, key |-> NoCipher]]
    /\ UNCHANGED <<buttons, sent, xlsx, conn>>

\* the process deletes a card (the confirm_delete callback)
ProcDelete(c, card_id) ==
    /\ pc[c].at = "idle"
    /\ card_id \in Live
    /\ DeleteCard(c, card_id)

ProcStep ==
    \/ \E c \in Stores : ProcStart(c)
    \/ \E c \in Stores, card \in SaveRequests : ProcCheck(c, card)
    \/ \E c \in Stores : ProcSave(c)
    \/ \E c \in Stores, id \in Ids : ProcDelete(c, id)

SpecConc == Init /\ [][ProcStep]_vars

(***************************************************************************)
(* One process, and what can make a stored blob undecryptable: the         *)
(* database file is altered, or the key file is lost and generated anew.   *)
(* Fernet authenticates a token with HMAC-SHA256 (database.py, lines       *)
(* 54-57): an altered token verifies under no key.                         *)
(***************************************************************************)
\* a token after some of its bytes were changed
tamper_token(token) ==
    [key |-> NoCipher, msg |-> json_dumps(Payload(NumB, None, None))]

\* a token after its tail was cut off
truncate_token(token) ==
    [key |-> NoCipher, msg |-> SubSeq(token.msg, 1, 1)]

\* the blob of a row is altered in the database file
TamperBlob(card_id) ==
    /\ card_id \in Live
    /\ table' = [table EXCEPT ![card_id].encrypted_data = tamper_token(@)]
    /\ UNCHANGED <<keyFile, keyMode, tableExists, seq, now, cipher, last, given, returned>>
    /\ UNCHANGED callerVars

\* the blob of a row is cut short in the database file
TruncateBlob(card_id) ==
    /\ card_id \in Live
    /\ table' = [table EXCEPT ![card_id].encrypted_data = truncate_token(@)]
    /\ UNCHANGED <<keyFile, keyMode, tableExists, seq, now, cipher, last, given, returned>>
    /\ UNCHANGED callerVars

\* the key file is lost; the next __init__ generates another key
LoseKeyFile ==
    /\ keyFile # NoFile
    /\ keyFile' = NoFile
    /\ keyMode' = NoMode
    /\ UNCHANGED <<tableExists, table, seq, now, cipher, last, given, returned>>
    /\ UNCHANGED callerVars

\* the card stored in the runs about keys and blobs (test_modules.py)
InitPayload == Payload(Spaced(NumA), Cvv123, Exp1225)

\* the row card_id does not decrypt under the key of store object c
Undecryptable(c, card_id) ==
    fernet_decrypt(cipher[c], table[card_id].encrypted_data).raised

FaultStep ==
    \/ Initialize(Db)
    \/ AddCard(Db, InitPayload, None)
    \/ GetAllCards(Db)
    \/ \E data \in SaveRequests : CardExists(Db, data.card_number)
    \/ \E id \in Ids : GetCard(Db, id)
    \/ \E id \in Ids : DeleteCard(Db, id)
    \/ \E id \in Ids, new_name \in NewLabels : UpdateCardName(Db, id, new_name)
    \/ \E id \in Ids : TamperBlob(id)
    \/ \E id \in Ids : TruncateBlob(id)
    \/ LoseKeyFile

SpecFault == Init /\ [][FaultStep]_vars

(***************************************************************************)
(* The checksum applied to card numbers: the number is in last.arg, the    *)
(* value returned in last.ret.                                             *)
(***************************************************************************)
\* the number validated in test_modules.py as it is written there, with the
\* check digit that makes its checksum 80, and with the digit next to it
NumA7 == [NumA EXCEPT ![16] = "7"]
NumA8 == [NumA EXCEPT ![16] = "8"]
NumC == <<"4","1","1","1","1","1","1","1","1","1","1","1","1","1","1","1">>

\* the numbers that differ from n in exactly one digit
OneDigitChanged(n) ==
    {[n EXCEPT ![i] = d] : i \in 1..Len(n), d \in Digits} \ {n}

\* the card numbers validated: five numbers of sixteen digits and every
\* number one digit away from one of them
LuhnInputs ==
    LET base == {NumA, NumA7, NumA8, NumB, NumC}
    IN base \cup UNION {OneDigitChanged(n) : n \in base}

InitLuhn ==
    /\ keyFile = NoFile
    /\ keyMode = NoMode
    /\ tableExists = FALSE
    /\ table = EmptyTable
    /\ seq = 0
    /\ now = 0
    /\ cipher = [c \in Stores |-> NoCipher]
    /\ \E n \in LuhnInputs : last = Call("card_number", Db, n, Ok(None))
    /\ given = EmptyTable
    /\ returned = <<>>
    /\ buttons = {}
    /\ pc = [c \in Stores |-> [at |-> "idle", data |-> None, key |-> NoCipher]]
    /\ sent = <<>>
    /\ xlsx = <<>>
    /\ conn = 0

\* parser.validate_card_number(card_number)
ValidateCardNumber ==
    /\ last.op = "card_number"
    /\ last' = Call("validate_card_number", Db, last.arg,
                    Ok(validate_card_number(last.arg)))
    /\ UNCHANGED <<keyFile, keyMode, tableExists, table, seq, now, cipher, given, returned>>
    /\ UNCHANGED callerVars

\* parser.format_card_number(card_number)
FormatCardNumber ==
    /\ last.op = "card_number"
    /\ last' = Call("format_card_number", Db, last.arg,
                    Ok(format_card_number(last.arg)))
    /\ UNCHANGED <<keyFile, keyMode, tableExists, table, seq, now, cipher, given, returned>>
    /\ UNCHANGED callerVars

\* parser.validate_card_number(parser.format_card_number(card_number))
ValidateFormatted ==
    /\ last.op = "format_card_number"
    /\ last' = Call("validate_formatted", Db, last.arg,
                    Ok(validate_card_number(last.ret.val)))
    /\ UNCHANGED <<keyFile, keyMode, tableExists, table, seq, now, cipher, given, returned>>
    /\ UNCHANGED callerVars

\* parser.validate_card_number on a number one digit away from a number
\* for which it has returned True
ValidateChanged ==
    /\ last.op = "validate_card_number"
    /\ last.ret.val = TRUE
    /\ \E changed \in OneDigitChanged(last.arg) :
          last' = Call("validate_changed", Db, changed,
                       Ok(validate_card_number(changed)))
    /\ UNCHANGED <<keyFile, keyMode, tableExists, table, seq, now, cipher, given, returned>>
    /\ UNCHANGED callerVars

LuhnStep ==
    \/ ValidateCardNumber
    \/ FormatCardNumber
    \/ ValidateFormatted
    \/ ValidateChanged

SpecLuhn == InitLuhn /\ [][LuhnStep]_vars

(***************************************************************************)
(* __init__ step by step (database.py, lines 14-32), for processes that    *)
(* construct their store objects at the same time on one key_path.         *)
(***************************************************************************)
\* the process moves on inside __init__, holding key in its local variable
Goto(c, at, key) == pc' = [pc EXCEPT ![c] = [at |-> at, data |-> None, key |-> key]]

\* if os.path.exists(self.key_path)
KeyExists(c) ==
    /\ pc[c].at = "idle"
    /\ ~Constructed(c)
    /\ Goto(c, IF keyFile # NoFile THEN "read" ELSE "generate", NoCipher)
    /\ UNCHANGED <<storeVars, buttons, sent, xlsx, conn>>

\* with open(self.key_path, 'rb') as f: key = f.read()
ReadKey(c) ==
    /\ pc[c].at = "read"
    /\ Goto(c, "fernet", keyFile)
    /\ UNCHANGED <<storeVars, buttons, sent, xlsx, conn>>

\* key = Fernet.generate_key()
GenerateKey(c) ==
    /\ pc[c].at = "generate"
    /\ \E fresh \in Keys : Goto(c, "open", fresh)
    /\ UNCHANGED <<storeVars, buttons, sent, xlsx, conn>>

\* open(self.key_path, 'wb'): the file is created, or cut to no bytes
OpenKeyFile(c) ==
    /\ pc[c].at = "open"
    /\ keyFile' = EmptyFile
    /\ \E created \in CreateModes :
           keyMode' = IF keyFile = NoFile THEN created ELSE keyMode
    /\ Goto(c, "write", pc[c].key)
    /\ UNCHANGED <<tableExists, table, seq, now, cipher, last, given, returned>>
    /\ UNCHANGED <<buttons, sent, xlsx, conn>>

\* f.write(key), and the end of the with block
WriteKey(c) ==
    /\ pc[c].at = "write"
    /\ keyFile' = pc[c].key
    /\ Goto(c, "chmod", pc[c].key)
    /\ UNCHANGED <<keyMode, tableExists, table, seq, now, cipher, last, given, returned>>
    /\ UNCHANGED <<buttons, sent, xlsx, conn>>

\* os.chmod(self.key_path, 0o600)
ChmodKey(c) ==
    /\ pc[c].at = "chmod"
    /\ keyMode' = OwnerOnly
    /\ Goto(c, "fernet", pc[c].key)
    /\ UNCHANGED <<keyFile, tableExists, table, seq, now, cipher, last, given, returned>>
    /\ UNCHANGED <<buttons, sent, xlsx, conn>>

\* return Fernet(key), assigned to self.cipher: Fernet raises ValueError
\* unless the key is 32 bytes in base64, and then __init__ ends with it
MakeCipher(c) ==
    /\ pc[c].at = "fernet"
    /\ IF pc[c].key = EmptyFile
       THEN /\ last' = Call("init", c, None, Raise("ValueError"))
            /\ Goto(c, "idle", NoCipher)
            /\ UNCHANGED cipher
       ELSE /\ cipher' = [cipher EXCEPT ![c] = pc[c].key]
            /\ Goto(c, "init_db", NoCipher)
            /\ UNCHANGED last
    /\ UNCHANGED <<keyFile, keyMode, tableExists, table, seq, now, given, returned>>
    /\ UNCHANGED <<buttons, sent, xlsx, conn>>

\* self._init_db(), and the end of __init__
InitDb(c) ==
    /\ pc[c].at = "init_db"
    /\ table' = create_table_if_not_exists(tableExists, table)
    /\ tableExists' = TRUE
    /\ given' = [i \in DOMAIN table' |-> given[i]]
    /\ last' = Call("init", c, None, Ok(None))
    /\ Goto(c, "idle", NoCipher)
    /\ UNCHANGED <<keyFile, keyMode, seq, now, cipher, returned>>
    /\ UNCHANGED <<buttons, sent, xlsx, conn>>

\* a constructed process stores a card
ProcAdd(c) ==
    /\ pc[c].at = "idle"
    /\ AddCard(c, InitPayload, card_label(InitPayload.card_number))

\* a constructed process reads a card
ProcGet(c, card_id) ==
    /\ pc[c].at = "idle"
    /\ card_id \in Live
    /\ GetCard(c, card_id)

InitStep ==
    \/ \E c \in Stores : KeyExists(c)
    \/ \E c \in Stores : ReadKey(c)
    \/ \E c \in Stores : GenerateKey(c)
    \/ \E c \in Stores : OpenKeyFile(c)
    \/ \E c \in Stores : WriteKey(c)
    \/ \E c \in Stores : ChmodKey(c)
    \/ \E c \in Stores : MakeCipher(c)
    \/ \E c \in Stores : InitDb(c)
    \/ \E c \in Stores : ProcAdd(c)
    \/ \E c \in Stores, id \in Ids : ProcGet(c, id)

SpecInit == Init /\ [][InitStep]_vars

(***************************************************************************)
(* Properties of the store.                                                *)
(***************************************************************************)
\* the call returned v (and did not raise)
Returns(r, v) == r.raised = FALSE /\ r.val = v

\* the ids add_card has returned so far
Issued == {returned[i] : i \in 1..Len(returned)}

\* C1: get_card on the id add_card returned gives back exactly the
\* card_number, cvv and expiry that were passed to add_card, for every
\* record not deleted, whatever calls were made in between.
C1_RoundTrip ==
    /\ \A c \in Stores : Constructed(c) =>
           \A id \in Live : Returns(get_card(cipher[c], table, id), given[id])
    /\ (last.op = "get_card" /\ last.arg \in Live) =>
           Returns(last.ret, given[last.arg])

\* a get_card has returned a payload whose cvv is None, after two adds
C1_Witness ==
    /\ last.op = "get_card"
    /\ last.arg \in Live
    /\ Len(returned) = 2
    /\ last.ret.raised = FALSE
    /\ last.ret.val.cvv = None
    /\ last.ret.val.card_number = Spaced(NumA)

\* C2: every id add_card returns is greater than every id it returned
\* before, also after deletes: no id is assigned twice or reused.
C2_IdsIncrease ==
    /\ \A i, j \in 1..Len(returned) : i < j => returned[i] < returned[j]
    /\ last.op = "add_card" =>
           /\ Returns(last.ret, returned[Len(returned)])
           /\ last.ret.val = seq
    /\ \A id \in Live : id <= seq

\* the second add_card came after the only record, the one with the
\* highest id, was deleted
C2_Witness ==
    /\ last.op = "add_card"
    /\ Len(returned) = 2
    /\ returned[1] \notin Live

\* C3: delete_card(id) returns True iff a row with that id existed, never
\* raises, leaves get_card(id) returning None, and leaves every other row
\* (id, card_name, payload, created_at) as it was.
C3_Delete ==
    [][\A id \in Ids : DeleteCard(Db, id) =>
          /\ Returns(last'.ret, id \in Live)
          /\ Returns(get_card(cipher'[Db], table', id), None)
          /\ DOMAIN table' = Live \ {id}
          /\ \A j \in Live \ {id} :
                /\ table'[j] = table[j]
                /\ get_card(cipher'[Db], table', j) = get_card(cipher[Db], table, j)
          /\ seq' = seq]_vars

\* a delete_card returned True and another record is still stored
C3_Witness ==
    /\ last.op = "delete_card"
    /\ Returns(last.ret, TRUE)
    /\ Live # {}

\* C4: update_card_name(id, new_name) returns True iff a row with that id
\* exists; then only that row's card_name changes; payloads, created_at,
\* the set of ids and the other rows stay; with no such row nothing changes.
C4_Rename ==
    [][\A id \in Ids, new_name \in NewLabels : UpdateCardName(Db, id, new_name) =>
          /\ Returns(last'.ret, id \in Live)
          /\ DOMAIN table' = Live
          /\ seq' = seq
          /\ \A j \in Live :
                /\ table'[j].encrypted_data = table[j].encrypted_data
                /\ table'[j].created_at = table[j].created_at
                /\ get_card(cipher'[Db], table', j) = get_card(cipher[Db], table, j)
                /\ j # id => table'[j] = table[j]
          /\ id \in Live => table'[id].card_name = new_name
          /\ id \notin Live => table' = table]_vars

\* a rename returned True for a record created earlier, next to another
\* record that still has no label
C4_Witness ==
    /\ last.op = "update_card_name"
    /\ Returns(last.ret, TRUE)
    /\ table[last.arg.card_id].created_at < now
    /\ \E j \in Live : j # last.arg.card_id /\ table[j].card_name = None

\* C5: a record goes absent -> created -> renamed -> deleted and never back:
\* no step changes the stored payload of a live id, a live id disappears
\* only by delete_card, an id appears only by add_card and is then new, and
\* a deleted id stays absent.
C5_Lifecycle ==
    [][/\ \A id \in Live \cap DOMAIN table' :
             /\ table'[id].encrypted_data = table[id].encrypted_data
             /\ given'[id] = given[id]
       /\ \A id \in Live \ DOMAIN table' : DeleteCard(Db, id)
       /\ \A id \in DOMAIN table' \ Live :
             /\ id \notin Issued
             /\ \E data \in Payloads, card_name \in AddLabels : AddCard(Db, data, card_name)
       /\ \A id \in Issued \ Live : id \notin DOMAIN table']_vars

\* a record was deleted and, later on the clock, add_card created another
C5_Witness ==
    /\ last.op = "add_card"
    /\ Issued \ Live # {}
    /\ now = MaxClock

\* C6: get_all_cards returns one (id, card_name, created_at) per stored row
\* and nothing else, in ascending order of id, and no entry holds the card
\* number, the CVV or the expiry.
C6_List ==
    LET r == get_all_cards(table) IN
    /\ Len(r) = Cardinality(Live)
    /\ \A i \in 1..Len(r) :
          /\ Len(r[i]) = 3
          /\ r[i][1] \in Live
          /\ r[i] = <<r[i][1], table[r[i][1]].card_name, table[r[i][1]].created_at>>
          /\ r[i][2] # None =>
                r[i][2] \notin {given[r[i][1]].card_number, given[r[i][1]].cvv,
                                given[r[i][1]].expiry}
    /\ \A i, j \in 1..Len(r) : i < j => r[i][1] < r[j][1]
    /\ last.op = "get_all_cards" => Returns(last.ret, r)

\* a listing of two records has been returned
C6_Witness ==
    /\ last.op = "get_all_cards"
    /\ Len(last.ret.val) = 2
    /\ last.ret.val[1][2] # last.ret.val[2][2]

\* card_number n is stored, up to the characters of class
StoredUpTo(n, class) ==
    \E id \in Live :
        RemoveChars(given[id].card_number, class) = RemoveChars(n, class)

C10_Reinitialize ==
    [][(Initialize(Db) /\ keyFile # NoFile /\ tableExists) =>
          /\ table' = table
          /\ seq' = seq
          /\ keyFile' = keyFile
          /\ \A id \in Live :
                /\ Returns(get_card(cipher'[Db], table', id), given[id])
                /\ Constructed(Db) =>
                      get_card(cipher'[Db], table', id) = get_card(cipher[Db], table, id)]_vars

\* a store was constructed while two records were stored
C10_Witness ==
    /\ last.op = "init"
    /\ Cardinality(Live) = 2

(***************************************************************************)
(* Properties of the callers.                                              *)
(***************************************************************************)
\* the card number a row holds, in the clear
StoredNumber(id) == json_loads(table[id].encrypted_data.msg).card_number

\* the number without its separators (whitespace and hyphens)
Bare(n) == RemoveChars(n, Separators)

\* C8: when every save goes through the bot's handlers, which call
\* card_exists first and skip add_card when it returns True, no two stored
\* records hold the same card number once separators are stripped.
C8_NoDuplicates ==
    \A i, j \in Live : i # j => Bare(StoredNumber(i)) # Bare(StoredNumber(j))

\* a save was refused for a number written with spaces while the stored
\* record holds it without separators, next to a record of another card
\* and with Save buttons pending
C8_Witness ==
    /\ last.op = "card_exists"
    /\ Returns(last.ret, TRUE)
    /\ last.arg = Spaced(NumA)
    /\ buttons # {}
    /\ \E id \in Live : StoredNumber(id) = NumA
    /\ \E id \in Live : StoredNumber(id) = Spaced(NumB)

\* C9: when two processes each run card_exists(N) and then, if it returned
\* False, add_card(N), the store never holds more than one record for N.
C9_AtMostOneRecord ==
    \A card \in SaveRequests :
        Cardinality({id \in Live : Bare(StoredNumber(id)) = Bare(card.card_number)}) <= 1


(***************************************************************************)
(* Properties of the key file.                                             *)
(***************************************************************************)
\* no process is inside __init__
AllIdle == \A c \in Stores : pc[c].at = "idle"

\* C11: however the constructions of store objects on one key_path
\* interleave, also when they start with no key file, every construction
\* ends with a cipher, all constructed objects hold the same key, which is
\* the content of the key file, and each decrypts the records of the others.
C11_SameKey ==
    /\ last.op = "init" => ~last.ret.raised
    /\ AllIdle => \A c \in Stores : Constructed(c) => cipher[c] = keyFile
    /\ \A c \in Stores, id \in Live :
          (Constructed(c) /\ pc[c].at = "idle") =>
              Returns(get_card(cipher[c], table, id), given[id])

\* C12: whenever the key file holds a key, its permission bits are 0600:
\* from the write of the generated key on, and after a construction that
\* loaded the file.
C12_OwnerOnly ==
    keyFile \notin {NoFile, EmptyFile} => keyMode = OwnerOnly

(***************************************************************************)
(* Properties of what leaves the encrypted column.                         *)
(***************************************************************************)
\* the card number, the CVV and the expiry of a payload
CardFields(p) == {p.card_number, p.cvv, p.expiry} \ {None}

\* part occurs in text
Contains(text, part) ==
    \E i \in 1..(Len(text) - Len(part) + 1) :
        SubSeq(text, i, i + Len(part) - 1) = part

\* the last four characters of a card number
LastFour(n) == SubSeq(n, (IF Len(n) > 4 THEN Len(n) - 3 ELSE 1), Len(n))

\* C13: nothing outside the encrypted blob holds the card number, the CVV
\* or the expiry of a stored record, or a part of them: not the label column
\* of the table, not a file on disk, not a message, a button or a document
\* sent to the chat.
C13_OnlyCiphertext ==
    \A id \in Live :
        /\ \A i \in 1..Len(sent) : sent[i] \notin CardFields(given[id])
        /\ \A i \in 1..Len(xlsx) :
              {xlsx[i].card_number, xlsx[i].cvv, xlsx[i].expiry}
                  \cap CardFields(given[id]) = {}
        /\ \A data \in buttons : ~Contains(data, given[id].card_number)
        /\ table[id].card_name # None =>
              ~Contains(table[id].card_name, LastFour(given[id].card_number))

(***************************************************************************)
(* Properties of the store when a blob does not decrypt.                   *)
(***************************************************************************)
\* C14: get_card on a stored row whose blob does not decrypt under the key
\* of the store object (another key, an altered or a truncated token) raises
\* the decryption error; it never returns None and never a payload other
\* than the one stored, which it returns when the blob decrypts.
C14_DecryptionError ==
    [][\A id \in Ids : (GetCard(Db, id) /\ id \in Live) =>
          IF Undecryptable(Db, id)
          THEN last'.ret.raised /\ last'.ret.val = "InvalidToken"
          ELSE Returns(last'.ret, given[id])]_vars

\* get_card raised for a stored row while another row decrypts
C14_Witness ==
    /\ last.op = "get_card"
    /\ last.arg \in Live
    /\ last.ret.raised
    /\ Undecryptable(Db, last.arg)
    /\ \E id \in Live : ~Undecryptable(Db, id)

\* C15: while a stored row does not decrypt, only get_card on that row
\* raises: card_exists for any number, get_card on the other rows,
\* get_all_cards, add_card, delete_card and update_card_name return.
C15_OnlyThatRecord ==
    (Constructed(Db) /\ \E bad \in Live : Undecryptable(Db, bad)) =>
        /\ \A data \in SaveRequests :
              ~card_exists(cipher[Db], table, data.card_number).raised
        /\ \A id \in Live :
              ~Undecryptable(Db, id) => ~get_card(cipher[Db], table, id).raised
        /\ last.op \in {"card_exists", "get_all_cards", "add_card", "delete_card",
                        "update_card_name"} => ~last.ret.raised

(***************************************************************************)
(* Properties of the save paths of the bot.                                *)
(***************************************************************************)
\* the candidate a Save button carries
Candidate(data) ==
    LET parts == Split(data)
    IN Payload(parts[2], NoneIfNoneText(parts[3]), NoneIfNoneText(parts[4]))

\* C16: on every path of the bot, photo and typed text alike, a record is
\* stored only by the step in which the user presses the Save button that
\* was shown for that same candidate.
C16_ConfirmedBeforeSaved ==
    [][\A id \in DOMAIN table' \ Live :
          \E data \in buttons :
              /\ Candidate(data) = given'[id]
              /\ PressSave(data)]_vars

(***************************************************************************)
(* Properties of the label.                                                *)
(***************************************************************************)
\* C17 as stated: add_card called without a card_name stores a label that
\* is not None, so get_all_cards never returns a record whose label is None.
C17_LabelNeverAbsent ==
    /\ \A id \in Live : table[id].card_name # None
    /\ \A i \in 1..Len(get_all_cards(table)) : get_all_cards(table)[i][2] # None

\* C17 as amended: add_card stores the card_name it is given, None when
\* none is given, and get_all_cards returns the record with that label.
C17_LabelAsGiven ==
    [][\A data \in Payloads, card_name \in AddLabels :
          AddCard(Db, data, card_name) =>
              /\ table'[seq'].card_name = card_name
              /\ \E i \in 1..Len(get_all_cards(table')) :
                    get_all_cards(table')[i] = <<seq', card_name, now>>]_vars

\* add_card was called without a card_name after a call with one, and
\* the record it stored has the label None
C17_Witness ==
    /\ last.op = "add_card"
    /\ last.arg.card_name = None
    /\ Returns(last.ret, seq)
    /\ table[seq].card_name = None
    /\ \E id \in Live : table[id].card_name = LabelTest

(***************************************************************************)
(* Properties of the checksum.                                             *)
(***************************************************************************)
\* the sum of the decimal digits of twice a digit
DoubledDigitSum(d) == ((2 * d) \div 10) + ((2 * d) % 10)

\* the sum of f over the positions in S
RECURSIVE SumOver(_, _)
SumOver(S, f) ==
    IF S = {} THEN 0
    ELSE LET i == CHOOSE j \in S : TRUE IN f[i] + SumOver(S \ {i}, f)

\* the Luhn verdict for a number of sixteen digits: counted from the left,
\* the digits at the odd positions are the second, fourth, ... from the right
LuhnReference(n) ==
    LET term == [i \in 1..16 |->
                    IF i % 2 = 1 THEN DoubledDigitSum(DigitValue[n[i]])
                    ELSE DigitValue[n[i]]]
    IN SumOver(1..16, term) % 10 = 0

\* C18: for every number N of sixteen digits, validate_card_number of
\* format_card_number(N) is the Luhn verdict for N and is
\* validate_card_number(N); the same input gives the same verdict.
C18_FormatKeepsVerdict ==
    /\ last.op = "validate_card_number" =>
           Returns(last.ret, LuhnReference(last.arg))
    /\ last.op = "validate_formatted" =>
           /\ Returns(last.ret, LuhnReference(last.arg))
           /\ Returns(last.ret, validate_card_number(last.arg))
           /\ Returns(last.ret, validate_card_number(format_card_number(last.arg)))

\* the formatted writing of a number that passes the checksum was validated
C18_Witness ==
    /\ last.op = "validate_formatted"
    /\ last.arg = NumB
    /\ Returns(last.ret, TRUE)
    /\ format_card_number(last.arg) = Spaced(NumB)

\* C19 as stated: validate_card_number("4276380123456789") returns True.
C19_VectorValid ==
    (last.op = "validate_card_number" /\ last.arg = NumA) =>
        Returns(last.ret, TRUE)

\* C19 as amended: validate_card_number("4276380123456789") returns False,
\* its checksum being 82, and validate_card_number("4276380123456787")
\* returns True.
C19_VectorInvalid ==
    /\ luhn_checksum(NumA, 0) = 82
    /\ ~validate_card_number(NumA)
    /\ validate_card_number(NumA7)
    /\ (last.op = "validate_card_number" /\ last.arg = NumA) =>
           Returns(last.ret, FALSE)
    /\ (last.op = "validate_card_number" /\ last.arg = NumA7) =>
           Returns(last.ret, TRUE)

\* validate_card_number has returned for "4276380123456789"
C19_Witness ==
    /\ last.op = "validate_card_number"
    /\ last.arg = NumA
    /\ Returns(last.ret, FALSE)

\* C20: for every number V of sixteen digits for which validate_card_number
\* returns True and every V' that differs from V in exactly one digit,
\* validate_card_number(V') returns False; "4276380123456788" is such a V'.
\* The last conjunct is the reason, for all numbers: at either kind of
\* position two different digits add different amounts modulo 10.
C20_OneDigitChanged ==
    /\ last.op = "validate_changed" => Returns(last.ret, FALSE)
    /\ (last.op = "validate_card_number" /\ Returns(last.ret, TRUE)) =>
           \A changed \in OneDigitChanged(last.arg) : ~validate_card_number(changed)
    /\ NumA8 \in OneDigitChanged(NumA7)
    /\ validate_card_number(NumA7) /\ ~validate_card_number(NumA8)
    /\ \A i \in 0..15, d, e \in 0..9 :
           d # e => (luhn_term(i, d) - luhn_term(i, e)) % 10 # 0

\* "4276380123456788" was validated as a change of the valid
\* "4276380123456787"
C20_Witness ==
    /\ last.op = "validate_changed"
    /\ last.arg = NumA8
    /\ Returns(last.ret, FALSE)

(***************************************************************************)
(* The extractor applied to texts (ocr_parser.py, lines 71-180): the text  *)
(* is drawn in the initial state, and each step is one call, or the calls  *)
(* handle_text and parse_all_cards_from_image make one after the other.    *)
(***************************************************************************)
MaxSpaces == 2

NumD == <<"1","2","3","4","5","6","7","8","9","0","1","2","3","4","5","6">>
Exp0130 == <<"0","1","/","3","0">>
Exp1126 == <<"1","1","/","2","6">>
Cvv801 == <<"8","0","1">>
Cvv456 == <<"4","5","6">>

\* "<number as four groups> MM/YY CCC", as in test_parser
CardLine(n, expiry, cvv) == Spaced(n) \o <<" ">> \o expiry \o <<" ">> \o cvv

CardLines ==
    {CardLine(n, e, c) : n \in {NumA, NumB, NumC, NumD},
                         e \in {Exp1225, Exp0130, Exp1126},
                         c \in {Cvv123, Cvv801, Cvv456}}

\* several cards in one text, each followed by its expiry and its CVV
TwoCardLines ==
    {CardLine(NumA, Exp1225, Cvv123) \o sep \o CardLine(NumB, Exp1126, Cvv456) :
        sep \in {<<" ">>, <<"\n">>, <<",", " ">>}}

\* s with ch inserted after its first i characters
InsertAt(s, i, ch) == SubSeq(s, 1, i) \o <<ch>> \o SubSeq(s, i + 1, Len(s))

\* the texts made from n by inserting up to k whitespace characters inside
RECURSIVE WithSpaces(_, _)
WithSpaces(n, k) ==
    IF k = 0 THEN {n}
    ELSE LET fewer == WithSpaces(n, k - 1)
         IN fewer \cup {InsertAt(s, i, " ") : s \in fewer, i \in 1..15}
                  \cup {InsertAt(n, i, "\n") : i \in 1..15}

\* a number between two neighbours: a letter, an underscore, punctuation
\* or nothing
Neighbours == {<<>>, <<"x">>, <<"_">>, <<":">>, <<".">>, <<"#">>}

Wrapped == {before \o NumA \o after : before \in Neighbours, after \in Neighbours}

\* texts without a card number, and texts where digits stand before it
OtherTexts ==
    { <<>>,
      <<"h", "e", "l", "l", "o", " ", "w", "o", "r", "l", "d">>,
      Exp1225,
      Cvv123,
      <<"a", "b", "c", " ">> \o Cvv123 \o <<" ">> \o Exp0130,
      SubSeq(NumA, 1, 15),
      SubSeq(Spaced(NumA), 1, 14),
      NumA \o <<"0">>,
      Spaced(NumA), Tabbed(NumA), Grouped(NumA, <<"-">>), Spaced(NumD),
      Spaced(NumA) \o <<",", " ">> \o Exp1225 \o <<" ">> \o Cvv123,
      NumA \o <<",", " ">> \o NumB,
      Exp1225 \o <<" ">> \o Spaced(NumA),
      <<"9", "9", " ">> \o Spaced(NumA) }

ParseInputs ==
    CardLines \cup TwoCardLines \cup WithSpaces(NumA, MaxSpaces)
        \cup Wrapped \cup OtherTexts

InitParse ==
    /\ keyFile = NoFile
    /\ keyMode = NoMode
    /\ tableExists = FALSE
    /\ table = EmptyTable
    /\ seq = 0
    /\ now = 0
    /\ cipher = [c \in Stores |-> NoCipher]
    /\ \E text \in ParseInputs : last = Call("text", Db, text, Ok(None))
    /\ given = EmptyTable
    /\ returned = <<>>
    /\ buttons = {}
    /\ pc = [c \in Stores |-> [at |-> "idle", data |-> None, key |-> NoCipher]]
    /\ sent = <<>>
    /\ xlsx = <<>>
    /\ conn = 0

\* parser.parse_card_number(text)
ParseCardNumber ==
    /\ last.op = "text"
    /\ last' = Call("parse_card_number", Db, last.arg,
                    Ok(parse_card_number(last.arg)))
    /\ UNCHANGED <<keyFile, keyMode, tableExists, table, seq, now, cipher, given, returned>>
    /\ UNCHANGED callerVars

\* parser.parse_expiry(text)
ParseExpiry ==
    /\ last.op = "text"
    /\ last' = Call("parse_expiry", Db, last.arg, Ok(parse_expiry(last.arg)))
    /\ UNCHANGED <<keyFile, keyMode, tableExists, table, seq, now, cipher, given, returned>>
    /\ UNCHANGED callerVars

\* parser.parse_cvv(text, card_number), card_number being what
\* parse_card_number has returned for the same text
ParseCvv ==
    /\ last.op = "parse_card_number"
    /\ last' = Call("parse_cvv", Db, last.arg,
                    Ok(parse_cvv(last.arg, last.ret.val)))
    /\ UNCHANGED <<keyFile, keyMode, tableExists, table, seq, now, cipher, given, returned>>
    /\ UNCHANGED callerVars

\* parser.parse_cvv(text, card_number) on a text that is the sixteen
\* digits of card_number and whitespace
ParseCvvOfNumber ==
    /\ last.op = "text"
    /\ RemoveChars(last.arg, Whitespace \cup Digits) = <<>>
    /\ Len(OnlyDigits(last.arg)) = 16
    /\ \E card_number \in {OnlyDigits(last.arg), Spaced(OnlyDigits(last.arg))} :
          last' = Call("parse_cvv_of_number", Db, last.arg,
                       Ok(parse_cvv(last.arg, card_number)))
    /\ UNCHANGED <<keyFile, keyMode, tableExists, table, seq, now, cipher, given, returned>>
    /\ UNCHANGED callerVars

\* parser.parse_all_card_numbers(text)
ParseAllCardNumbers ==
    /\ last.op = "text"
    /\ last' = Call("parse_all_card_numbers", Db, last.arg,
                    Ok(parse_all_card_numbers(last.arg)))
    /\ UNCHANGED <<keyFile, keyMode, tableExists, table, seq, now, cipher, given, returned>>
    /\ UNCHANGED callerVars

\* the same text given to both paths: parse_card_number has returned,
\* parse_all_card_numbers is called
ParseBoth ==
    /\ last.op = "parse_card_number"
    /\ last' = Call("parse_both", Db, last.arg,
                    Ok([single |-> last.ret.val,
                        all |-> parse_all_card_numbers(last.arg)]))
    /\ UNCHANGED <<keyFile, keyMode, tableExists, table, seq, now, cipher, given, returned>>
    /\ UNCHANGED callerVars

ParseStep ==
    \/ ParseCardNumber
    \/ ParseExpiry
    \/ ParseCvv
    \/ ParseCvvOfNumber
    \/ ParseAllCardNumbers
    \/ ParseBoth

SpecParse == InitParse /\ [][ParseStep]_vars

(***************************************************************************)
(* Properties of the extractor.                                            *)
(***************************************************************************)
\* C21: whenever parse_card_number returns a value, the value is the
\* sixteen digits as four groups of four separated by single spaces; for
\* "4276 3801 2345 6789 12/25 123" it is "4276 3801 2345 6789".
C21_FourGroups ==
    last.op = "parse_card_number" =>
        /\ last.ret.val # None =>
              /\ Len(OnlyDigits(last.ret.val)) = 16
              /\ last.ret.val = Spaced(OnlyDigits(last.ret.val))
        /\ last.arg = CardLine(NumA, Exp1225, Cvv123) =>
              last.ret.val = Spaced(NumA)

\* C22: for a text "<number as four groups> MM/YY CCC", parse_expiry
\* returns the MM/YY written after the number, whatever the digits of the
\* number are.
C22_ExpiryAfterNumber ==
    last.op = "parse_expiry" /\ last.arg \in CardLines =>
        last.ret.val = SubSeq(last.arg, 21, 25)

\* C23: for a text "<number as four groups> MM/YY CCC", parse_cvv called
\* with what parse_card_number returned for the same text returns CCC.
C23_CvvAfterExpiry ==
    last.op = "parse_cvv" /\ last.arg \in CardLines =>
        last.ret.val = SubSeq(last.arg, 27, 29)

\* C23 (witness): the CVV 801 was returned for a text whose number holds
\* the digits 801 in its second group
C23_Witness ==
    /\ last.op = "parse_cvv"
    /\ last.arg = CardLine(NumA, Exp1225, Cvv801)
    /\ last.ret.val = Cvv801

\* the separator-stripped text holds sixteen digits in a row somewhere
HasRun16(text) == FindAll16(RemoveChars(text, Separators), 1) # <<>>

\* C24 (as stated): on a text without a run of sixteen digits each of
\* parse_card_number, parse_expiry and parse_cvv returns None and does not
\* raise.
C24_AllAbsent ==
    /\ last.op \in {"parse_card_number", "parse_expiry", "parse_cvv"}
    /\ ~HasRun16(last.arg)
    => last.ret.raised = FALSE /\ last.ret.val = None

\* C24 (amended): none of the three raises; on a text without a run of
\* sixteen digits parse_card_number returns None; on a text without any
\* digit parse_expiry and parse_cvv return None as well.
C24_AbsentWithoutDigits ==
    last.op \in {"parse_card_number", "parse_expiry", "parse_cvv"} =>
        /\ last.ret.raised = FALSE
        /\ last.op = "parse_card_number" /\ ~HasRun16(last.arg) =>
              last.ret.val = None
        /\ OnlyDigits(last.arg) = <<>> => last.ret.val = None

\* C24 (witness): parse_cvv has returned None for "hello world"
C24_Witness ==
    /\ last.op = "parse_cvv"
    /\ last.arg = <<"h", "e", "l", "l", "o", " ", "w", "o", "r", "l", "d">>
    /\ last.ret = Ok(None)

\* the runs of exactly sixteen digits of s from position i on, a run being
\* bounded by characters of the class `inside' on neither side
RECURSIVE RunsOf16(_, _, _)
RunsOf16(s, i, inside) ==
    IF i + 15 > Len(s) THEN <<>>
    ELSE IF /\ DigitsAt(s, i, 16)
            /\ (i = 1 \/ s[i - 1] \notin inside)
            /\ (i + 16 > Len(s) \/ s[i + 16] \notin inside)
         THEN <<SubSeq(s, i, i + 15)>> \o RunsOf16(s, i + 16, inside)
         ELSE RunsOf16(s, i + 1, inside)

\* the runs of exactly sixteen digits between non-digits
DigitBoundedRuns(text) == RunsOf16(RemoveChars(text, Separators), 1, Digits)

\* the runs of exactly sixteen digits between characters that are neither
\* digits nor letters nor underscores
WordBoundedRuns(text) ==
    RunsOf16(RemoveChars(text, Separators), 1, Digits \cup Letters \cup {"_"})

\* C25: parse_all_card_numbers returns one entry for every run of exactly
\* sixteen digits of the stripped text and no other, formatted, in order;
\* for a text with several cards, each followed by its expiry and CVV,
\* every entry is one of those cards.
C25_EveryEntryACard ==
    last.op = "parse_all_card_numbers" =>
        /\ last.ret.val = [i \in 1..Len(DigitBoundedRuns(last.arg)) |->
                              Spaced(DigitBoundedRuns(last.arg)[i])]
        /\ last.arg \in TwoCardLines =>
              \A i \in 1..Len(last.ret.val) :
                  last.ret.val[i] \in {Spaced(NumA), Spaced(NumB)}

\* C26 (as stated): when the stripped text holds a run of exactly sixteen
\* digits between non-digits (letters and underscores included),
\* parse_card_number returns the first such run as four groups.
C26_FirstDigitBoundedRun ==
    last.op = "parse_card_number" /\ DigitBoundedRuns(last.arg) # <<>> =>
        last.ret.val = Spaced(DigitBoundedRuns(last.arg)[1])

\* C26 (amended): when the stripped text holds a run of exactly sixteen
\* digits between characters that are neither digits, letters nor
\* underscores (or the ends of the text), parse_card_number returns the
\* first such run as four groups.
C26_FirstWordBoundedRun ==
    last.op = "parse_card_number" /\ WordBoundedRuns(last.arg) # <<>> =>
        last.ret.val = Spaced(WordBoundedRuns(last.arg)[1])

\* C26 (witness): of two numbers between punctuation the first was returned
C26_Witness ==
    /\ last.op = "parse_card_number"
    /\ last.arg = NumA \o <<",", " ">> \o NumB
    /\ last.ret.val = Spaced(NumA)

\* C27: on a text that is the sixteen digits of card_number with
\* whitespace inserted anywhere, parse_cvv(text, card_number) returns None.
C27_NoPieceOfNumber ==
    last.op = "parse_cvv_of_number" => last.ret.val = None

\* C30: when parse_card_number returns a number for a text,
\* parse_all_card_numbers returns for the same text a list that holds a
\* number with the same sixteen digits.
C30_PathsAgree ==
    last.op = "parse_both" /\ last.ret.val.single # None =>
        \E i \in 1..Len(last.ret.val.all) :
            OnlyDigits(last.ret.val.all[i]) = OnlyDigits(last.ret.val.single)

(***************************************************************************)
(* The connections of the store (database.py): every operation runs in     *)
(* `with sqlite3.connect(self.db_path) as conn:'.  Leaving the block       *)
(* commits or rolls back and does not close; the connection is closed     *)
(* when its object is freed, which the interpreter does at the end of the  *)
(* call or at a later collection, and not before the exception is dropped  *)
(* when the call raises (the traceback holds the frame).                   *)
(***************************************************************************)
MaxConn == 2

\* the connections open after a call that began with n of them
connections_after(n, ret, freed) ==
    IF ret.raised \/ ~freed THEN n + 1 ELSE n

\* the end of a call: its connection is freed at once, or it is not
Disconnect ==
    /\ \E freed \in BOOLEAN : conn' = connections_after(conn, last'.ret, freed)
    /\ UNCHANGED <<buttons, pc, sent, xlsx>>

\* db = SecureCardDatabase(...): _init_db
ConnInitialize(c) ==
    conn < MaxConn /\ InitializeCall(c) /\ Disconnect

ConnAddCard(c, data, card_name) ==
    conn < MaxConn /\ AddCardCall(c, data, card_name) /\ Disconnect

ConnCardExists(c, card_number) ==
    conn < MaxConn /\ CardExistsCall(c, card_number) /\ Disconnect

ConnGetCard(c, card_id) ==
    conn < MaxConn /\ GetCardCall(c, card_id) /\ Disconnect

\* the garbage collector frees the connection objects no longer referenced
Collect ==
    /\ conn > 0
    /\ conn' = 0
    /\ UNCHANGED <<storeVars, buttons, pc, sent, xlsx>>

ConnStep ==
    \/ ConnInitialize(Db)
    \/ \E card_name \in AddLabels : ConnAddCard(Db, InitPayload, card_name)
    \/ \E data \in SaveRequests : ConnCardExists(Db, data.card_number)
    \/ \E id \in Ids : ConnGetCard(Db, id)
    \/ \E id \in Ids : TamperBlob(id)
    \/ Collect

SpecConnection == Init /\ [][ConnStep]_vars

\* C28: by the time a store operation has returned or raised, the
\* connection it acquired is closed; no connection is open between
\* operations.
C28_ConnectionClosed ==
    conn = 0

(***************************************************************************)
(* Properties of add_card as an insert.                                    *)
(***************************************************************************)
\* C29: every add_card returns without raising and adds exactly one new
\* row; the id, card_name, payload and created_at of every row stored
\* before stay as they were, also when a row with the same card number is
\* already stored (the store neither rejects nor merges).
C29_AddsOneRecord ==
    [][\A data \in Payloads, card_name \in AddLabels :
          AddCard(Db, data, card_name) =>
             /\ last'.ret.raised = FALSE
             /\ last'.ret.val \notin Live
             /\ DOMAIN table' = Live \cup {last'.ret.val}
             /\ Cardinality(DOMAIN table') = Cardinality(Live) + 1
             /\ \A id \in Live :
                   /\ table'[id] = table[id]
                   /\ get_card(cipher'[Db], table', id) = get_card(cipher[Db], table, id)
             /\ Returns(get_card(cipher'[Db], table', last'.ret.val), data)]_vars

\* C29 (witness): add_card has stored a second record with the payload of
\* the record stored before it
C29_Witness ==
    /\ last.op = "add_card"
    /\ Cardinality(Live) = 2
    /\ \A i, j \in Live : given[i] = given[j]
    /\ \A i, j \in Live : table[i].encrypted_data = table[j].encrypted_data

=============================================================================
